---- MODULE Spec2Model ----
(***************************************************************************)
(* BrowsEZ for Microsoft Teams: the context-window manager, the two        *)
(* bounding passes over tool results, maintain_context_limit               *)
(* (src/src/utils.py) and render_response (src/src/app.py), and the        *)
(* message handler handle_message with call_llm (src/src/app.py).          *)
(*                                                                         *)
(* Text is a sequence of one-character strings, so that slicing, length    *)
(* and line splitting are those of the Python code.  A Python value is a   *)
(* record [t |-> type] with one more field, named after the type, for its  *)
(* payload; a dict's payload is the sequence of its [k, val] items in      *)
(* insertion order.                                                        *)
(***************************************************************************)
EXTENDS Integers, Sequences, FiniteSets, TLC

VARIABLES
    history,    \* ContextWindowManager: the ordered turns, turn[0] first
    cap,        \* ContextWindowManager: the configured cap on non-directive turns
    appended,   \* every non-directive turn given to append so far, in order
    mcl,        \* the locals of the last maintain_context_limit call
    rr,         \* the locals of the last render_response call
    tc,         \* the locals of the last _truncate_cell call
    now,        \* the clock of the process
    now_ist,    \* app.now_ist: the clock as read when the module was imported
    chat        \* the locals of the last handle_message call and its call_llm

vars == <<history, cap, appended, mcl, rr, tc, now, now_ist, chat>>

(***************************************************************************)
(* Bounds of the model.                                                    *)
(***************************************************************************)
MaxCap == 6
MaxAppends == 10
MaxStamp == 1
MaxRecords == 3
MaxRows == 2
MaxFieldValue == 2
MaxCellWidth == 3
MaxRenderRows == 3
MaxClock == 2

(***************************************************************************)
(* Sequences of characters.                                                *)
(***************************************************************************)
Min(a, b) == IF a < b THEN a ELSE b
Max(a, b) == IF a > b THEN a ELSE b

Rep(c, n) == [i \in 1..n |-> c]

\* Python s[:n]
SliceTo(s, n) ==
    IF n >= 0 THEN SubSeq(s, 1, Min(n, Len(s)))
    ELSE SubSeq(s, 1, Max(Len(s) + n, 0))

\* sub occurs in s starting at position i
MatchAt(s, i, sub) ==
    /\ i >= 1
    /\ i + Len(sub) - 1 <= Len(s)
    /\ \A j \in 1..Len(sub) : s[i + j - 1] = sub[j]

\* Python: sub in s
Contains(s, sub) == \E i \in 1..(Len(s) + 1) : MatchAt(s, i, sub)

StartsWith(s, pre) == MatchAt(s, 1, pre)

EndsWith(s, suf) == Len(suf) <= Len(s) /\ MatchAt(s, Len(s) - Len(suf) + 1, suf)

Digits == <<"0", "1", "2", "3", "4", "5", "6", "7", "8", "9">>

IsDigit(c) == \E d \in 1..10 : Digits[d] = c

DigitValue(c) == (CHOOSE d \in 1..10 : Digits[d] = c) - 1

RECURSIVE NatToStr(_)
NatToStr(n) ==
    IF n < 10 THEN <<Digits[n + 1]>>
    ELSE NatToStr(n \div 10) \o <<Digits[(n % 10) + 1]>>

IntToStr(n) == IF n < 0 THEN <<"-">> \o NatToStr(0 - n) ELSE NatToStr(n)

(***************************************************************************)
(* Python values.                                                          *)
(***************************************************************************)
PyNone == [t |-> "none"]
PyBool(b) == [t |-> "bool", b |-> b]
PyInt(n) == [t |-> "int", n |-> n]
PyStr(s) == [t |-> "str", s |-> s]
PyList(xs) == [t |-> "list", xs |-> xs]
PyDict(kvs) == [t |-> "dict", kvs |-> kvs]

Item(k, val) == [k |-> k, val |-> val]

isinstance(x, ty) == x.t = ty

\* len(x) is defined for str, list and dict and raises TypeError otherwise
has_len(x) == x.t \in {"str", "list", "dict"}

\* str(x) of a scalar
str_scalar(x) ==
    CASE x.t = "none" -> <<"N","o","n","e">>
      [] x.t = "bool" -> (IF x.b THEN <<"T","r","u","e">> ELSE <<"F","a","l","s","e">>)
      [] x.t = "int" -> IntToStr(x.n)
      [] x.t = "str" -> x.s

\* d[k] = val: a present key keeps its place, a new key goes last
DictSet(kvs, k, val) ==
    IF \E i \in 1..Len(kvs) : kvs[i].k = k
    THEN [i \in 1..Len(kvs) |-> IF kvs[i].k = k THEN Item(k, val) ELSE kvs[i]]
    ELSE Append(kvs, Item(k, val))

(***************************************************************************)
(* json.dumps(obj, indent=2): the items of a non-empty container go one    *)
(* per line, indented by two spaces per level; "," separates items and     *)
(* ": " a key from its value; an empty container is "[]" or "{}".          *)
(***************************************************************************)
NewlineIndent(level) == <<"\n">> \o Rep(" ", 2 * level)

EscapeChar(c) ==
    CASE c = "\"" -> <<"\\", "\"">>
      [] c = "\\" -> <<"\\", "\\">>
      [] c = "\n" -> <<"\\", "n">>
      [] OTHER -> <<c>>

RECURSIVE EscapeChars(_)
EscapeChars(s) ==
    IF s = <<>> THEN <<>> ELSE EscapeChar(Head(s)) \o EscapeChars(Tail(s))

encode_basestring(s) == <<"\"">> \o EscapeChars(s) \o <<"\"">>

RECURSIVE _iterencode(_, _)
RECURSIVE _iterencode_list(_, _, _)
RECURSIVE _iterencode_dict(_, _, _)

_iterencode_list(xs, level, i) ==
    IF i > Len(xs) THEN NewlineIndent(level - 1) \o <<"]">>
    ELSE (IF i > 1 THEN <<",">> ELSE <<>>)
         \o NewlineIndent(level)
         \o _iterencode(xs[i], level)
         \o _iterencode_list(xs, level, i + 1)

_iterencode_dict(kvs, level, i) ==
    IF i > Len(kvs) THEN NewlineIndent(level - 1) \o <<"}">>
    ELSE (IF i > 1 THEN <<",">> ELSE <<>>)
         \o NewlineIndent(level)
         \o encode_basestring(kvs[i].k) \o <<":", " ">>
         \o _iterencode(kvs[i].val, level)
         \o _iterencode_dict(kvs, level, i + 1)

_iterencode(o, level) ==
    CASE o.t = "str" -> encode_basestring(o.s)
      [] o.t = "none" -> <<"n","u","l","l">>
      [] o.t = "bool" -> (IF o.b THEN <<"t","r","u","e">> ELSE <<"f","a","l","s","e">>)
      [] o.t = "int" -> IntToStr(o.n)
      [] o.t = "list" ->
            IF o.xs = <<>> THEN <<"[", "]">>
            ELSE <<"[">> \o _iterencode_list(o.xs, level + 1, 1)
      [] o.t = "dict" ->
            IF o.kvs = <<>> THEN <<"{", "}">>
            ELSE <<"{">> \o _iterencode_dict(o.kvs, level + 1, 1)

json_dumps(obj) == _iterencode(obj, 0)

(***************************************************************************)
(* json.loads(s): a recursive-descent parser of the JSON grammar over the  *)
(* characters of s (objects, arrays, strings with the escapes dumps        *)
(* writes, integers, null, true, false; whitespace between tokens).  The   *)
(* result is [ok, v, i]: whether a value was parsed, the value, and the    *)
(* position after it.  json.loads raises where ok is FALSE.                *)
(***************************************************************************)
ParseFail == [ok |-> FALSE, val |-> PyNone, i |-> 0]

Parsed(val, next) == [ok |-> TRUE, val |-> val, i |-> next]

IsWhitespace(c) == c \in {" ", "\n", "\t", "\r"}

RECURSIVE SkipWhitespace(_, _)
SkipWhitespace(s, i) ==
    IF i <= Len(s) /\ IsWhitespace(s[i]) THEN SkipWhitespace(s, i + 1) ELSE i

RECURSIVE ScanDigits(_, _)
ScanDigits(s, i) ==
    IF i <= Len(s) /\ IsDigit(s[i]) THEN ScanDigits(s, i + 1) ELSE i

RECURSIVE DigitsToNat(_, _, _)
DigitsToNat(s, i, j) ==
    IF j < i THEN 0 ELSE 10 * DigitsToNat(s, i, j - 1) + DigitValue(s[j])

\* -?(0|[1-9][0-9]*)
parse_number(s, i) ==
    LET neg == i <= Len(s) /\ s[i] = "-"
        b == IF neg THEN i + 1 ELSE i
        e == IF b <= Len(s) /\ s[b] = "0" THEN b + 1 ELSE ScanDigits(s, b)
    IN  IF e = b THEN ParseFail
        ELSE Parsed(PyInt(IF neg THEN 0 - DigitsToNat(s, b, e - 1)
                          ELSE DigitsToNat(s, b, e - 1)), e)

Unescape(c) ==
    CASE c = "n" -> "\n"
      [] c = "t" -> "\t"
      [] c = "r" -> "\r"
      [] OTHER -> c

\* i is the position after the opening quote; acc the characters read so far
RECURSIVE py_scanstring(_, _, _)
py_scanstring(s, i, acc) ==
    IF i > Len(s) THEN ParseFail
    ELSE IF s[i] = "\"" THEN Parsed(PyStr(acc), i + 1)
    ELSE IF s[i] = "\\" THEN
        IF i + 1 <= Len(s) /\ s[i + 1] \in {"\"", "\\", "/", "n", "t", "r"}
        THEN py_scanstring(s, i + 2, Append(acc, Unescape(s[i + 1])))
        ELSE ParseFail
    ELSE IF s[i] \in {"\n", "\t", "\r"} THEN ParseFail
    ELSE py_scanstring(s, i + 1, Append(acc, s[i]))

RECURSIVE scan_once(_, _)
RECURSIVE JSONArray(_, _, _)
RECURSIVE JSONObject(_, _, _)

\* i is the position of the next element; acc the elements read so far
JSONArray(s, i, acc) ==
    LET r == scan_once(s, i)
        j == SkipWhitespace(s, r.i)
    IN  IF ~r.ok \/ j > Len(s) THEN ParseFail
        ELSE IF s[j] = "]" THEN Parsed(PyList(Append(acc, r.val)), j + 1)
        ELSE IF s[j] = "," THEN JSONArray(s, SkipWhitespace(s, j + 1), Append(acc, r.val))
        ELSE ParseFail

\* i is the position of the next key's opening quote; acc the items read so far
JSONObject(s, i, acc) ==
    IF i > Len(s) \/ s[i] # "\"" THEN ParseFail
    ELSE
    LET key == py_scanstring(s, i + 1, <<>>)
        c == SkipWhitespace(s, key.i)
    IN  IF ~key.ok \/ c > Len(s) \/ s[c] # ":" THEN ParseFail
        ELSE
        LET r == scan_once(s, SkipWhitespace(s, c + 1))
            j == SkipWhitespace(s, r.i)
        IN  IF ~r.ok \/ j > Len(s) THEN ParseFail
            ELSE IF s[j] = "}" THEN Parsed(PyDict(DictSet(acc, key.val.s, r.val)), j + 1)
            ELSE IF s[j] = ","
                 THEN JSONObject(s, SkipWhitespace(s, j + 1), DictSet(acc, key.val.s, r.val))
            ELSE ParseFail

scan_once(s, i) ==
    IF i > Len(s) THEN ParseFail
    ELSE IF s[i] = "\"" THEN py_scanstring(s, i + 1, <<>>)
    ELSE IF s[i] = "{" THEN
        LET j == SkipWhitespace(s, i + 1)
        IN  IF j <= Len(s) /\ s[j] = "}" THEN Parsed(PyDict(<<>>), j + 1)
            ELSE JSONObject(s, j, <<>>)
    ELSE IF s[i] = "[" THEN
        LET j == SkipWhitespace(s, i + 1)
        IN  IF j <= Len(s) /\ s[j] = "]" THEN Parsed(PyList(<<>>), j + 1)
            ELSE JSONArray(s, j, <<>>)
    ELSE IF MatchAt(s, i, <<"n","u","l","l">>) THEN Parsed(PyNone, i + 4)
    ELSE IF MatchAt(s, i, <<"t","r","u","e">>) THEN Parsed(PyBool(TRUE), i + 4)
    ELSE IF MatchAt(s, i, <<"f","a","l","s","e">>) THEN Parsed(PyBool(FALSE), i + 5)
    ELSE IF s[i] = "-" \/ IsDigit(s[i]) THEN parse_number(s, i)
    ELSE ParseFail

\* the whole text is one value between optional whitespace
json_loads(s) ==
    LET r == scan_once(s, SkipWhitespace(s, 1))
    IN  IF r.ok /\ SkipWhitespace(s, r.i) = Len(s) + 1 THEN r ELSE ParseFail

(***************************************************************************)
(* maintain_context_limit (src/src/utils.py).                              *)
(***************************************************************************)
TRUNCATED == <<".",".",".","(","t","r","u","n","c","a","t","e","d",")">>

OUTPUT_TRUNCATED == <<"\n",".",".","."," ","o","u","t","p","u","t"," ","t","r","u","n","c","a","t","e","d"," ",".",".",".">>

PROCESSING_ERROR == <<"A","n"," ","e","r","r","o","r"," ","o","c","c","u","r","r","e","d"," ","i","n"," ","p","r","o","c","e","s","s","i","n","g"," ","t","h","e"," ","A","P","I"," ","r","e","s","p","o","n","s","e">>

Return(text) == [kind |-> "return", text |-> text]

Raise(exception) == [kind |-> "raise", exception |-> exception]

\* the row cap and the field cap done in place, on the list that was passed in
argument_after_in_place(data, bound) ==
    IF isinstance(data, "list") THEN bound ELSE data

\* The object the caller passed, as the call leaves it.  Every statement
\* that shortens or rewrites binds a name to a new object (a slice, a
\* comprehension, a new str) and none assigns into, appends to or deletes
\* from an object reachable from the argument, so whatever the last object
\* bound is, the argument is as it was.
argument_after(data, bound) == data

\* try: json_data = json.loads(data) if isinstance(data, str) else data
parse_data(data) ==
    IF isinstance(data, "str") THEN json_loads(data.s) ELSE Parsed(data, 0)

\* normalize_items without the synthetic record: a scalar is wrapped as it is
normalize_items_bare_scalar(json_data) ==
    IF isinstance(json_data, "list") THEN json_data ELSE PyList(<<json_data>>)

\* a dict becomes [dict], a list stays, anything else becomes [{"response": str(x)}]
normalize_items(json_data) ==
    IF isinstance(json_data, "dict") THEN PyList(<<json_data>>)
    ELSE IF isinstance(json_data, "list") THEN json_data
    ELSE PyList(<<PyDict(<<Item(<<"r","e","s","p","o","n","s","e">>, PyStr(str_scalar(json_data)))>>)>>)

\* the row cap applied to every list of the tree, not to the top-level one only
RECURSIVE cap_rows_nested(_, _)
cap_rows_nested(items, max_rows) ==
    CASE isinstance(items, "dict") ->
            PyDict([i \in 1..Len(items.kvs) |->
                Item(items.kvs[i].k, cap_rows_nested(items.kvs[i].val, max_rows))])
      [] isinstance(items, "list") ->
            PyList([i \in 1..Min(Len(items.xs), max_rows) |->
                cap_rows_nested(items.xs[i], max_rows)])
      [] OTHER -> items

\* cap_rows keeping the last max_rows records (items[-max_rows:])
cap_rows_keep_last(items, max_rows) ==
    IF Len(items.xs) > max_rows
    THEN PyList(SubSeq(items.xs, Len(items.xs) - max_rows + 1, Len(items.xs)))
    ELSE items

\* if len(items) > max_rows: items = items[:max_rows]
cap_rows(items, max_rows) ==
    IF Len(items.xs) > max_rows THEN PyList(SliceTo(items.xs, max_rows)) ELSE items

\* obj[:max_field_value] + "...(truncated)" for a str longer than max_field_value
truncate_str(s, max_field_value) ==
    IF Len(s) > max_field_value THEN SliceTo(s, max_field_value) \o TRUNCATED ELSE s

\* truncate_values without the list branch: strings inside lists are not visited
RECURSIVE truncate_values_dict_only(_, _)
truncate_values_dict_only(obj, max_field_value) ==
    CASE isinstance(obj, "dict") ->
            PyDict([i \in 1..Len(obj.kvs) |->
                Item(obj.kvs[i].k, truncate_values_dict_only(obj.kvs[i].val, max_field_value))])
      [] isinstance(obj, "str") -> PyStr(truncate_str(obj.s, max_field_value))
      [] OTHER -> obj

RECURSIVE truncate_values(_, _)
truncate_values(obj, max_field_value) ==
    CASE isinstance(obj, "dict") ->
            PyDict([i \in 1..Len(obj.kvs) |->
                Item(obj.kvs[i].k, truncate_values(obj.kvs[i].val, max_field_value))])
      [] isinstance(obj, "list") ->
            PyList([i \in 1..Len(obj.xs) |-> truncate_values(obj.xs[i], max_field_value)])
      [] isinstance(obj, "str") -> PyStr(truncate_str(obj.s, max_field_value))
      [] OTHER -> obj

\* cap_total comparing with >= : a serialization of exactly max_total_chars is cut
cap_total_off_by_one(output, max_total_chars) ==
    IF Len(output) >= max_total_chars
    THEN SliceTo(output, max_total_chars) \o OUTPUT_TRUNCATED
    ELSE output

\* if len(output) > max_total_chars: output = output[:max_total_chars] + marker
cap_total(output, max_total_chars) ==
    IF Len(output) > max_total_chars
    THEN SliceTo(output, max_total_chars) \o OUTPUT_TRUNCATED
    ELSE output

\* print(f"Reduced data of {len(data)} to {len(output)}"); return output
report_and_return(data, output) ==
    IF has_len(data) THEN Return(output) ELSE Raise("TypeError")

\* The locals of a call when it ends.  pc tells how far it went: "parse_error"
\* (the except branch returned the sentinel) or "done" (it reached the end).
maintain_context_limit(data, max_total_chars, max_field_value, max_rows) ==
    LET p == parse_data(data)
        json_data == p.val
        normalized == normalize_items(json_data)
        capped == cap_rows(normalized, max_rows)
        items == truncate_values(capped, max_field_value)
        dumped == json_dumps(items)
        output == cap_total(dumped, max_total_chars)
    IN  IF ~p.ok
        THEN [pc |-> "parse_error", data |-> data,
              max_total_chars |-> max_total_chars,
              max_field_value |-> max_field_value, max_rows |-> max_rows,
              json_data |-> PyNone, normalized |-> PyNone, capped |-> PyNone,
              items |-> PyNone, dumped |-> <<>>, output |-> <<>>,
              outcome |-> Return(PROCESSING_ERROR)]
        ELSE [pc |-> "done", data |-> argument_after(data, items),
              max_total_chars |-> max_total_chars,
              max_field_value |-> max_field_value, max_rows |-> max_rows,
              json_data |-> json_data, normalized |-> normalized, capped |-> capped,
              items |-> items, dumped |-> dumped, output |-> output,
              outcome |-> report_and_return(data, output)]

NoCall == [pc |-> "idle"]

(***************************************************************************)
(* The inputs of maintain_context_limit: records whose string field is as  *)
(* long as the field budgets or longer, lists of them, nested containers,  *)
(* scalars, and JSON text, well-formed and not.                            *)
(***************************************************************************)
FieldStrings == {Rep("a", n) : n \in 1..(MaxFieldValue + 1)}

Record(s) == PyDict(<<Item(<<"k">>, PyStr(s))>>)

Records == {Record(s) : s \in FieldStrings}

RecordLists ==
    UNION {[1..n -> Records] : n \in 0..MaxRecords}

LongString == Rep("a", MaxFieldValue + 1)

NestedDict ==
    PyDict(<<Item(<<"k">>, PyStr(LongString)),
             Item(<<"n">>, PyDict(<<Item(<<"m">>,
                 PyList(<<PyStr(LongString), PyInt(7), PyNone>>))>>))>>)

MixedList ==
    PyList(<<PyStr(LongString), PyInt(5),
             PyList(<<PyStr(LongString \o <<"\"">>)>>),
             PyDict(<<Item(<<"j">>, PyList(<<Record(LongString)>>))>>)>>)

WrappedRows ==
    PyDict(<<Item(<<"r","o","w","s">>, PyList([i \in 1..(MaxRows + 1) |-> Record(<<"a">>)]))>>)

StructuredInputs ==
    {PyList(l) : l \in RecordLists} \cup Records
        \cup {NestedDict, MixedList, WrappedRows, PyDict(<<>>)}

ScalarInputs == {PyNone, PyInt(5), PyInt(-12), PyBool(TRUE)}

ValidJsonText ==
    {PyStr(json_dumps(x)) : x \in {NestedDict, MixedList, PyList(<<>>),
                                   PyList(<<Record(LongString), Record(<<"a">>)>>)}}
        \cup {PyStr(<<"5">>), PyStr(<<"n","u","l","l">>), PyStr(<<" ","\"","a","a","a","a","\""," ">>), PyStr(<<"{","\"","k","\"",":"," ","\"","a","a","a","a","\"","}">>)}

InvalidJsonText ==
    {PyStr(<<>>), PyStr(<<"a","b","c">>), PyStr(<<"{">>), PyStr(<<"[","1",",","]">>),
     PyStr(<<"{","\"","k","\"",":"," ","\"","a","\"","}"," ","x">>), PyStr(<<"{","'","k","'",":"," ","1","}">>)}

BoundInputs == StructuredInputs \cup ScalarInputs \cup ValidJsonText \cup InvalidJsonText

\* a budget every serialization overflows, the length of a one-record
\* serialization, and the default budget
TotalCharsBudgets == {5, Len(json_dumps(PyList(<<Record(<<"a">>)>>))), 20000}

\* a call that has its arguments and has not run yet
MclCall(data, max_total_chars, max_field_value, max_rows) ==
    [pc |-> "call", data |-> data,
     max_total_chars |-> max_total_chars,
     max_field_value |-> max_field_value, max_rows |-> max_rows]

MclCalls ==
    {MclCall(data, max_total_chars, max_field_value, max_rows) :
        data \in BoundInputs, max_total_chars \in TotalCharsBudgets,
        max_field_value \in 0..MaxFieldValue, max_rows \in 1..MaxRows}

CallMaintainContextLimit ==
    /\ mcl.pc = "call"
    /\ mcl' = maintain_context_limit(mcl.data, mcl.max_total_chars,
                                     mcl.max_field_value, mcl.max_rows)
    /\ UNCHANGED <<history, cap, appended, rr, tc, now, now_ist, chat>>

(***************************************************************************)
(* ContextWindowManager: the history of one conversation session.          *)
(***************************************************************************)
Directive(content) == [role |-> "directive", content |-> content]

Turn(role, content) == [role |-> role, content |-> content]

NonDirective(h) == SelectSeq(h, LAMBDA t : t.role # "directive")

\* eviction from the head of the whole history: the directive turn goes first
RECURSIVE evict_from_head(_, _)
evict_from_head(h, c) ==
    IF Len(h) - 1 > c THEN evict_from_head(Tail(h), c) ELSE h

\* newest-first eviction: the turn before the one just appended is dropped
RECURSIVE evict_newest(_, _)
evict_newest(h, c) ==
    IF Len(NonDirective(h)) > c
    THEN evict_newest(SubSeq(h, 1, Len(h) - 2) \o <<h[Len(h)]>>, c)
    ELSE h

\* oldest-first eviction of non-directive turns until back at the cap
RECURSIVE evict(_, _)
evict(h, c) ==
    IF Len(NonDirective(h)) > c
    THEN evict(<<h[1]>> \o SubSeq(h, 3, Len(h)), c)
    ELSE h

append(h, turn, c) == evict(Append(h, turn), c)

\* a refresh that also drops the oldest turn
refresh_directive_and_evict(h, new_content) ==
    <<Directive(new_content)>> \o SubSeq(h, 3, Len(h))

refresh_directive(h, new_content) == [h EXCEPT ![1] = Directive(new_content)]

\* a user turn opens a round; the assistant answers or asks for a tool, whose
\* result is followed by the assistant again
NextRoles(log) ==
    IF log = <<>> THEN {"user"}
    ELSE CASE log[Len(log)].role = "user" -> {"assistant"}
           [] log[Len(log)].role = "assistant" -> {"user", "tool"}
           [] log[Len(log)].role = "tool" -> {"assistant"}

AppendTurn ==
    /\ Len(appended) < MaxAppends
    /\ \E role \in NextRoles(appended) :
        LET turn == Turn(role, Len(appended) + 1)
        IN  /\ history' = append(history, turn, cap)
            /\ appended' = Append(appended, turn)
    /\ UNCHANGED <<cap, mcl, rr, tc, now, now_ist, chat>>

RefreshDirective ==
    /\ \E new_content \in 0..MaxStamp :
        /\ new_content # history[1].content
        /\ history' = refresh_directive(history, new_content)
    /\ UNCHANGED <<cap, appended, mcl, rr, tc, now, now_ist, chat>>

(***************************************************************************)
(* render_response (src/src/app.py).                                       *)
(***************************************************************************)
CELL_TRUNCATED == <<".",".",".","(","t","r","u","n","c","a","t","e","d",")">>

SIZE_TRUNCATED == <<"\n","\n",".",".",".","(","O","U","T","P","U","T"," ","T","R","U","N","C","A","T","E","D",":"," ","s","i","z","e"," ","l","i","m","i","t",")",".",".",".">>

ROW_TRUNCATED == <<"\n",".",".",".","(","O","U","T","P","U","T"," ","T","R","U","N","C","A","T","E","D",":"," ","r","o","w"," ","l","i","m","i","t",")",".",".",".">>

TEXT_KEY == <<"t","e","x","t">>

\* k in d
DictHas(kvs, k) == \E i \in 1..Len(kvs) : kvs[i].k = k

\* d[k]
DictGet(kvs, k) == kvs[CHOOSE i \in 1..Len(kvs) : kvs[i].k = k].val

\* sep.join(parts)
RECURSIVE Join(_, _)
Join(parts, sep) ==
    IF parts = <<>> THEN <<>>
    ELSE IF Len(parts) = 1 THEN parts[1]
    ELSE parts[1] \o sep \o Join(Tail(parts), sep)

\* repr(s) of a str: single quotes unless s has a single and no double quote
ReprQuote(s) ==
    IF (\E i \in 1..Len(s) : s[i] = "'") /\ ~(\E i \in 1..Len(s) : s[i] = "\"")
    THEN "\"" ELSE "'"

ReprChar(c, quote) ==
    CASE c = "\\" -> <<"\\", "\\">>
      [] c = "\n" -> <<"\\", "n">>
      [] c = "\t" -> <<"\\", "t">>
      [] c = "\r" -> <<"\\", "r">>
      [] c = quote -> <<"\\", c>>
      [] OTHER -> <<c>>

RECURSIVE ReprChars(_, _)
ReprChars(s, quote) ==
    IF s = <<>> THEN <<>> ELSE ReprChar(Head(s), quote) \o ReprChars(Tail(s), quote)

\* repr(x)
RECURSIVE py_repr(_)
py_repr(x) ==
    CASE x.t = "none" -> <<"N","o","n","e">>
      [] x.t = "bool" -> (IF x.b THEN <<"T","r","u","e">> ELSE <<"F","a","l","s","e">>)
      [] x.t = "int" -> IntToStr(x.n)
      [] x.t = "str" -> <<ReprQuote(x.s)>> \o ReprChars(x.s, ReprQuote(x.s)) \o <<ReprQuote(x.s)>>
      [] x.t = "list" ->
            <<"[">> \o Join([i \in 1..Len(x.xs) |-> py_repr(x.xs[i])], <<","," ">>) \o <<"]">>
      [] x.t = "dict" ->
            <<"{">> \o Join([i \in 1..Len(x.kvs) |->
                        py_repr(PyStr(x.kvs[i].k)) \o <<":"," ">> \o py_repr(x.kvs[i].val)], <<","," ">>)
                \o <<"}">>

\* str(x)
py_str(x) == IF x.t = "str" THEN x.s ELSE py_repr(x)

\* the text as a leaf: {"text": s}
TextLeaf(s) == PyDict(<<Item(TEXT_KEY, PyStr(s))>>)

\* json.loads(s) with no except around it: nothing stands for the text it
\* could not parse
loads_unguarded(s) == json_loads(s).val

\* json.loads(s), or the raw text as a leaf where it raises
loads_or_leaf(s) ==
    IF json_loads(s).ok THEN json_loads(s).val ELSE TextLeaf(s)

\* the envelope's content with the envelope's other fields kept before it
_to_obj_keep_siblings(x) ==
    IF isinstance(x, "dict") /\ DictHas(x.kvs, TEXT_KEY)
    THEN LET inner == DictGet(x.kvs, TEXT_KEY)
             siblings == SelectSeq(x.kvs, LAMBDA item : item.k # TEXT_KEY)
             content == IF inner.t \in {"dict", "list"} THEN inner
                        ELSE IF isinstance(inner, "str") THEN loads_or_leaf(inner.s)
                        ELSE TextLeaf(py_str(inner))
         IN  IF isinstance(content, "dict") THEN PyDict(siblings \o content.kvs)
             ELSE content
    ELSE IF x.t \in {"dict", "list"} THEN x
    ELSE IF isinstance(x, "str") THEN loads_or_leaf(x.s)
    ELSE TextLeaf(py_str(x))

RECURSIVE _to_obj(_)
_to_obj(x) ==
    IF isinstance(x, "dict") /\ DictHas(x.kvs, TEXT_KEY)
    THEN LET inner == DictGet(x.kvs, TEXT_KEY)
         IN  IF inner.t \in {"dict", "list"} THEN inner
             ELSE IF isinstance(inner, "str") THEN loads_or_leaf(inner.s)
             ELSE TextLeaf(py_str(inner))
    ELSE IF x.t \in {"dict", "list"} THEN x
    ELSE IF isinstance(x, "str") THEN loads_or_leaf(x.s)
    ELSE TextLeaf(py_str(x))

\* the cut without the marker
_truncate_cell_silent(v, max_cell_width) ==
    LET s == IF isinstance(v, "none") THEN <<>> ELSE py_str(v)
    IN  IF Len(s) > max_cell_width THEN SliceTo(s, max_cell_width) ELSE s

_truncate_cell(v, max_cell_width) ==
    LET s == IF isinstance(v, "none") THEN <<>> ELSE py_str(v)
    IN  IF Len(s) > max_cell_width
        THEN SliceTo(s, max_cell_width) \o CELL_TRUNCATED
        ELSE s

\* the keys of row not yet in seen, appended in the row's order
RECURSIVE AddKeys(_, _, _)
AddKeys(seen, kvs, i) ==
    IF i > Len(kvs) THEN seen
    ELSE IF \E j \in 1..Len(seen) : seen[j] = kvs[i].k THEN AddKeys(seen, kvs, i + 1)
    ELSE AddKeys(Append(seen, kvs[i].k), kvs, i + 1)

\* the rows scanned from the last to the first
RECURSIVE seen_cols_last_row_first(_, _, _)
seen_cols_last_row_first(records, i, seen) ==
    IF i > Len(records) THEN seen
    ELSE seen_cols_last_row_first(records, i + 1,
            AddKeys(seen, records[Len(records) + 1 - i].kvs, 1))

\* seen_cols: the union of the rows' keys, as discovered
RECURSIVE seen_cols(_, _, _)
seen_cols(records, i, seen) ==
    IF i > Len(records) THEN seen
    ELSE seen_cols(records, i + 1, AddKeys(seen, records[i].kvs, 1))

\* r.get(c, "")
DictGetOrEmpty(kvs, c) == IF DictHas(kvs, c) THEN DictGet(kvs, c) ELSE PyStr(<<>>)

\* a row with cells only for the columns the record has
table_cells_own_keys(r, cols, max_cell_width) ==
    LET own == SelectSeq(cols, LAMBDA c : DictHas(r.kvs, c))
    IN  [j \in 1..Len(own) |-> _truncate_cell(DictGet(r.kvs, own[j]), max_cell_width)]

\* row = [_truncate_cell(r.get(c, "")) for c in seen_cols]
table_cells(r, cols, max_cell_width) ==
    [j \in 1..Len(cols) |->
        _truncate_cell(DictGetOrEmpty(r.kvs, cols[j]), max_cell_width)]

\* "| " + " | ".join(row) + " |"
table_row(r, cols, max_cell_width) ==
    <<"|"," ">> \o Join(table_cells(r, cols, max_cell_width), <<" ","|"," ">>) \o <<" ","|">>

\* the items that are not objects left out of the table, where the code
\* gives up the table
_make_table_objects_only(records, max_cell_width) ==
    IF ~isinstance(records, "list") \/ records.xs = <<>> THEN PyNone
    ELSE
    LET objects == SelectSeq(records.xs, LAMBDA r : isinstance(r, "dict"))
        cols == seen_cols(objects, 1, <<>>)
        header == <<"|"," ">> \o Join(cols, <<" ","|"," ">>) \o <<" ","|","\n">>
        sep == <<"|"," ">> \o Join([j \in 1..Len(cols) |-> <<"-","-","-">>], <<" ","|"," ">>) \o <<" ","|","\n">>
        rows == [i \in 1..Len(objects) |-> table_row(objects[i], cols, max_cell_width)]
    IN  PyStr(header \o sep \o Join(rows, <<"\n">>) \o <<"\n">>)

\* the table as PyStr, or PyNone where the code returns None
_make_table(records, max_cell_width) ==
    IF ~isinstance(records, "list") \/ records.xs = <<>> THEN PyNone
    ELSE IF \E i \in 1..Len(records.xs) : ~isinstance(records.xs[i], "dict") THEN PyNone
    ELSE
    LET cols == seen_cols(records.xs, 1, <<>>)
        header == <<"|"," ">> \o Join(cols, <<" ","|"," ">>) \o <<" ","|","\n">>
        sep == <<"|"," ">> \o Join([j \in 1..Len(cols) |-> <<"-","-","-">>], <<" ","|"," ">>) \o <<" ","|","\n">>
        rows == [i \in 1..Len(records.xs) |-> table_row(records.xs[i], cols, max_cell_width)]
    IN  PyStr(header \o sep \o Join(rows, <<"\n">>) \o <<"\n">>)

\* "\n" + "#" * h + " " + name
Heading(level, name) ==
    <<"\n">> \o Rep("#", Max(1, Min(6, level + 1))) \o <<" ">> \o name

\* "\n".join(part for part in md if part)
JoinParts(md) == Join(SelectSeq(md, LAMBDA part : part # <<>>), <<"\n">>)

\* name is "" at the root and a key or "name[i]" below it, never None, so the
\* leaf branch under "name is None" is never taken
RECURSIVE _walk(_, _, _, _)
_walk(node, level, name, max_cell_width) ==
    LET head == IF name # <<>> THEN <<Heading(level, name)>> ELSE <<>>
    IN  CASE isinstance(node, "dict") ->
                JoinParts(head \o [i \in 1..Len(node.kvs) |->
                    _walk(node.kvs[i].val, level + 1, node.kvs[i].k, max_cell_width)])
          [] isinstance(node, "list") ->
                LET tbl == _make_table(node, max_cell_width)
                IN  IF ~isinstance(tbl, "none") THEN JoinParts(head \o <<tbl.s>>)
                    ELSE JoinParts(head \o [i \in 1..Len(node.xs) |->
                            _walk(node.xs[i], level + 1,
                                  name \o <<"[">> \o IntToStr(i - 1) \o <<"]">>,
                                  max_cell_width)])
          [] OTHER ->
                JoinParts(<<Heading(level, name) \o <<":"," ">>
                            \o _truncate_cell(node, max_cell_width)>>)

\* the position of the first "\n" of s at or after i, Len(s) + 1 if there is none
NextNewline(s, i) ==
    IF \E j \in i..Len(s) : s[j] = "\n"
    THEN CHOOSE j \in i..Len(s) : s[j] = "\n" /\ \A k \in i..(j - 1) : s[k] # "\n"
    ELSE Len(s) + 1

\* str.splitlines() of a text whose only line boundary is "\n": a line ends at
\* each "\n", and what follows the last "\n" is a line unless it is empty
RECURSIVE SplitFrom(_, _)
SplitFrom(s, i) ==
    IF i > Len(s) THEN <<>>
    ELSE <<SubSeq(s, i, NextNewline(s, i) - 1)>> \o SplitFrom(s, NextNewline(s, i) + 1)

splitlines(s) == SplitFrom(s, 1)

\* the size cap with kept and dropped confused: the excess is what is kept
cap_size_keep_excess(markdown, max_total_chars) ==
    IF Len(markdown) > max_total_chars
    THEN SliceTo(markdown, Len(markdown) - max_total_chars) \o SIZE_TRUNCATED
    ELSE markdown

\* if len(markdown) > max_total_chars: cut and append the size marker
cap_size(markdown, max_total_chars) ==
    IF Len(markdown) > max_total_chars
    THEN SliceTo(markdown, max_total_chars) \o SIZE_TRUNCATED
    ELSE markdown

\* the line cap keeping one line more than max_rows
cap_lines_one_more(markdown, max_rows) ==
    IF Len(splitlines(markdown)) > max_rows
    THEN Join(SliceTo(splitlines(markdown), max_rows + 1), <<"\n">>) \o ROW_TRUNCATED
    ELSE markdown

\* if len(lines) > max_rows: keep the first max_rows lines, append the row marker
cap_lines(markdown, max_rows) ==
    IF Len(splitlines(markdown)) > max_rows
    THEN Join(SliceTo(splitlines(markdown), max_rows), <<"\n">>) \o ROW_TRUNCATED
    ELSE markdown

\* the two caps the other way round: lines first, then size
final_caps_rows_first(markdown, max_total_chars, max_rows) ==
    [sized |-> cap_lines(markdown, max_rows),
     markdown |-> cap_size(cap_lines(markdown, max_rows), max_total_chars)]

\* section 5 of render_response: the size cap, then the line cap on its result
final_caps(markdown, max_total_chars, max_rows) ==
    [sized |-> cap_size(markdown, max_total_chars),
     markdown |-> cap_lines(cap_size(markdown, max_total_chars), max_rows)]

\* The locals of a call when it returns: obj, the text _walk built (walked),
\* the text after the size cap (sized) and the returned text (markdown).
render_response(data, max_total_chars, max_rows, max_cell_width) ==
    LET obj == _to_obj(data)
        walked == _walk(obj, 0, <<>>, max_cell_width)
        capped == final_caps(walked, max_total_chars, max_rows)
    IN  [pc |-> "done", data |-> argument_after(data, obj),
         max_total_chars |-> max_total_chars, max_rows |-> max_rows,
         max_cell_width |-> max_cell_width,
         obj |-> obj, walked |-> walked, sized |-> capped.sized,
         markdown |-> capped.markdown,
         outcome |-> Return(capped.markdown)]

(***************************************************************************)
(* The inputs of render_response: flat and nested objects, lists of        *)
(* records with differing keys, lists of scalars, envelopes around each    *)
(* kind of payload, JSON text, other text and scalars.                     *)
(***************************************************************************)
WideCell == Rep("y", MaxCellWidth + 1)

FlatObject == PyDict(<<Item(<<"a">>, PyStr(WideCell)), Item(<<"b">>, PyInt(5))>>)

NestedObject ==
    PyDict(<<Item(<<"a">>, PyDict(<<Item(<<"b">>, PyStr(<<"x">>)),
                                    Item(<<"c">>, PyList(<<PyInt(1), PyStr(<<"y">>)>>))>>)),
             Item(<<"d">>, PyNone)>>)

RecordTable ==
    PyList(<<PyDict(<<Item(<<"a">>, PyInt(1)), Item(<<"b">>, PyInt(2))>>),
             PyDict(<<Item(<<"b">>, PyStr(WideCell)),
                      Item(<<"c">>, PyDict(<<Item(<<"d">>, PyStr(<<"x">>))>>))>>)>>)

Balances ==
    PyDict(<<Item(<<"b","a","l","a","n","c","e","s">>, PyList(<<
        PyDict(<<Item(<<"t","y","p","e">>, PyStr(<<"A">>)), Item(<<"a","m","o","u","n","t">>, PyStr(<<"1",".","5">>))>>),
        PyDict(<<Item(<<"t","y","p","e">>, PyStr(<<"L">>)), Item(<<"a","m","o","u","n","t">>, PyStr(<<"1",".","5">>)),
                 Item(<<"n","o","t","e">>, PyStr(WideCell))>>)>>))>>)

ScalarList == PyList(<<PyStr(<<"x">>), PyInt(5), PyNone>>)

MixedRows == PyList(<<PyDict(<<Item(<<"a">>, PyInt(1))>>), PyStr(<<"x">>), PyList(<<PyInt(2)>>)>>)

Envelope(payload) == PyDict(<<Item(TEXT_KEY, payload)>>)

EnvelopeWithSiblings ==
    PyDict(<<Item(<<"s","t","a","t","u","s">>, PyStr(<<"o","k">>)),
             Item(TEXT_KEY, PyDict(<<Item(<<"a">>, PyInt(1))>>))>>)

PlainText == PyStr(<<"n","o"," ","j","s","o","n">>)

TextEnvelopeWithSiblings ==
    PyDict(<<Item(TEXT_KEY, PlainText), Item(<<"c","o","d","e">>, PyInt(404))>>)

RenderInputs ==
    {FlatObject, NestedObject, RecordTable, Balances, ScalarList, MixedRows,
     PyDict(<<>>), PyList(<<>>),
     Envelope(RecordTable), Envelope(Envelope(FlatObject)),
     Envelope(PyStr(json_dumps(NestedObject))), Envelope(PlainText),
     Envelope(PyStr(<<"5">>)), Envelope(PyNone), Envelope(PyInt(7)),
     EnvelopeWithSiblings, TextEnvelopeWithSiblings,
     PyStr(json_dumps(FlatObject)), PyStr(<<"[","1",","," ","\"","x","\"","]">>), PyStr(<<"7">>), PyStr(<<"\"","y","y","\"">>),
     PlainText, PyStr(<<>>), PyNone, PyInt(12)}

\* budgets most texts overflow, some texts overflow, and the default
RenderCharsBudgets == {5, 12, 40, 25000}

RenderRowsBudgets == (0..MaxRenderRows) \cup {200}

CellWidthBudgets == {1, MaxCellWidth, 120}

RrCall(data, max_total_chars, max_rows, max_cell_width) ==
    [pc |-> "call", data |-> data,
     max_total_chars |-> max_total_chars, max_rows |-> max_rows,
     max_cell_width |-> max_cell_width]

RrCalls ==
    {RrCall(data, max_total_chars, max_rows, max_cell_width) :
        data \in RenderInputs, max_total_chars \in RenderCharsBudgets,
        max_rows \in RenderRowsBudgets, max_cell_width \in CellWidthBudgets}

CallRenderResponse ==
    /\ rr.pc = "call"
    /\ rr' = render_response(rr.data, rr.max_total_chars, rr.max_rows, rr.max_cell_width)
    /\ UNCHANGED <<history, cap, appended, mcl, tc, now, now_ist, chat>>

(***************************************************************************)
(* The values _truncate_cell is given: null, booleans, numbers of one and  *)
(* of several digits, texts up to longer than every width, and the         *)
(* containers a table cell can hold.                                       *)
(***************************************************************************)
CellTexts == {Rep("y", n) : n \in 0..(MaxCellWidth + 2)} \cup {<<"x"," ","y">>, <<"i","t","'","s">>}

CellValues ==
    {PyNone, PyBool(TRUE), PyBool(FALSE)}
    \cup {PyInt(n) : n \in {0, 7, 12, 0 - 3, 1234, 0 - 56789}}
    \cup {PyStr(s) : s \in CellTexts}
    \cup {PyList(<<PyInt(1), PyStr(<<"a">>)>>), PyList(<<>>),
          PyDict(<<Item(<<"d">>, PyStr(<<"x">>))>>)}

CellWidths == (0..MaxCellWidth) \cup {120}

TcCall(v, max_cell_width) == [pc |-> "call", v |-> v, max_cell_width |-> max_cell_width]

TcCalls == {TcCall(v, max_cell_width) : v \in CellValues, max_cell_width \in CellWidths}

CallTruncateCell ==
    /\ tc.pc = "call"
    /\ tc' = [pc |-> "done", v |-> tc.v, max_cell_width |-> tc.max_cell_width,
              result |-> _truncate_cell(tc.v, tc.max_cell_width)]
    /\ UNCHANGED <<history, cap, appended, mcl, rr, now, now_ist, chat>>

(***************************************************************************)
(* handle_message and call_llm (src/src/app.py).  The model call           *)
(* client.responses.create and the tool's run are collaborators: each      *)
(* either raises or returns, and what it returns is the environment's      *)
(* choice.  An outcome is Return(text) or one of the records below.        *)
(***************************************************************************)
TOOL_REGISTRY ==
    {<<"c","h","e","c","k","_","b","a","n","k","_","b","a","l","a","n","c","e">>, <<"g","e","t","_","b","a","n","k","_","s","t","a","t","e","m","e","n","t">>, <<"i","m","p","s","_","s","t","a","t","u","s","_","c","h","e","c","k">>,
     <<"n","e","f","t","_","s","t","a","t","u","s","_","c","h","e","c","k">>, <<"r","t","g","s","_","s","t","a","t","u","s","_","c","h","e","c","k">>, <<"t","r","a","n","s","a","c","t","i","o","n","_","s","t","a","t","u","s","_","t","l">>,
     <<"u","p","i","_","s","t","a","t","u","s","_","m","l">>}

TOOL_ERROR == <<"T","h","e","r","e"," ","w","a","s"," ","a","n"," ","e","r","r","o","r"," ","e","x","e","c","u","t","i","n","g"," ","y","o","u","r"," ","r","e","q","u","e","s","t",".">>

NOTHING_SENT == <<"L","o","o","k","s"," ","l","i","k","e"," ","t","h","e"," ","b","a","c","k","e","n","d"," ","d","i","d","n","'","t"," ","s","e","n","d"," ","a","n","y","t","h","i","n","g","."," ","C","a","n"," ","y","o","u"," ","c","h","e","c","k"," ","t","h","e"," ","p","a","r","a","m","e","t","e","r","s"," ","w","h","e","n"," ","y","o","u"," ","g","e","t"," ","a"," ","s","e","c","?">>

NO_TOOL == <<"I","'","m"," ","h","e","r","e"," ","t","o"," ","h","e","l","p","."," ","I"," ","c","a","n"," ","o","n","l","y"," ","r","u","n"," ","y","o","u","r"," ","A","P","I","s",","," ","L","e","t"," ","m","e"," ","k","n","o","w"," ","h","o","w"," ","I"," ","c","a","n"," ","m","a","k","e"," ","y","o","u"," ","l","i","f","e"," ","E","-","Z",".","\n","\n","L","L","M",":"," ">>

WENT_WRONG == <<"S","o","m","e","t","h","i","n","g"," ","w","e","n","t"," ","w","r","o","n","g"," ","w","h","i","l","e"," ","p","r","o","c","e","s","s","i","n","g"," ","y","o","u","r"," ","r","e","q","u","e","s","t",".","\n","\n","E","r","r","o","r",":"," ">>

\* an exception with its type and str(e)
Raised(exception, message) ==
    [kind |-> "raise", exception |-> exception, message |-> message]

\* response.output as returned by client.responses.create
Responded(output) == [kind |-> "return", output |-> output]

\* the value tool.run returned
Ran(result) == [kind |-> "return", result |-> result]

\* a step that was not reached
NotReached == [kind |-> "none"]

\* the items of response.output
FunctionCall(name, arguments) ==
    [type |-> "function_call", name |-> name, arguments |-> arguments, text |-> <<>>]

Message(text) == [type |-> "message", name |-> <<>>, arguments |-> <<>>, text |-> text]

\* SYSTEM_PROMPT is an f-string evaluated once, when the module is imported,
\* around now_ist, which was read on the line before; neither is assigned
\* again.  Its fixed text is left out.
SYSTEM_PROMPT == [role |-> "system", timestamp |-> now_ist]

\* input=[{"role": "system", ...}, {"role": "user", "content": query}]
request_input(query) == <<SYSTEM_PROMPT, [role |-> "user", content |-> query]>>

\* str(response.output): the list's repr, each item shown with its fields
item_repr(item) ==
    IF item.type = "function_call"
    THEN <<"R","e","s","p","o","n","s","e","F","u","n","c","t","i","o","n","T","o","o","l","C","a","l","l","(","a","r","g","u","m","e","n","t","s","=">> \o py_repr(PyStr(item.arguments))
            \o <<","," ","n","a","m","e","=">> \o py_repr(PyStr(item.name)) \o <<","," ","t","y","p","e","=","'","f","u","n","c","t","i","o","n","_","c","a","l","l","'",")">>
    ELSE <<"R","e","s","p","o","n","s","e","O","u","t","p","u","t","M","e","s","s","a","g","e","(","c","o","n","t","e","n","t","=">> \o py_repr(PyStr(item.text))
            \o <<","," ","t","y","p","e","=","'","m","e","s","s","a","g","e","'",")">>

output_str(output) ==
    <<"[">> \o Join([i \in 1..Len(output) |-> item_repr(output[i])], <<","," ">>) \o <<"]">>

\* the last item of type function_call, 0 if there is none: a loop that runs
\* to the end of the output before it acts
last_function_call(output) ==
    IF \E i \in 1..Len(output) : output[i].type = "function_call"
    THEN CHOOSE i \in 1..Len(output) :
            /\ output[i].type = "function_call"
            /\ \A j \in (i + 1)..Len(output) : output[j].type # "function_call"
    ELSE 0

\* the first item of type function_call, 0 if there is none: the loop returns
\* on it in every branch
first_function_call(output) ==
    IF \E i \in 1..Len(output) : output[i].type = "function_call"
    THEN CHOOSE i \in 1..Len(output) :
            /\ output[i].type = "function_call"
            /\ \A j \in 1..(i - 1) : output[j].type # "function_call"
    ELSE 0

\* json.loads(item.arguments): the value, or the JSONDecodeError of a text
\* whose first character begins no value
loads_arguments(arguments) ==
    IF json_loads(arguments).ok THEN Ran(json_loads(arguments).val)
    ELSE Raised("JSONDecodeError", <<"E","x","p","e","c","t","i","n","g"," ","v","a","l","u","e",":"," ","l","i","n","e"," ","1"," ","c","o","l","u","m","n"," ","1"," ","(","c","h","a","r"," ","0",")">>)

\* execute_tool up to tool.run: the ValueError of a name not in the registry
lookup_tool(tool_name) ==
    IF tool_name \in TOOL_REGISTRY THEN NotReached
    ELSE Raised("ValueError", <<"T","o","o","l"," ","'">> \o tool_name \o <<"'"," ","n","o","t"," ","i","m","p","l","e","m","e","n","t","e","d",".">>)

\* no except around the body of call_llm: the exception leaves it
outer_except_missing(e) == e

\* except Exception as e: return f"Something went wrong ... Error: {e}"
outer_except(e) == Return(WENT_WRONG \o e.message)

\* except Exception: return "There was an error executing your request."
inner_except(e) == Return(TOOL_ERROR)

\* btfd_result = render_response(tool_result) and the return that follows
beautified(tool_result) ==
    LET btfd_result == render_response(tool_result, 25000, 200, 120).outcome
    IN  IF btfd_result.kind = "raise" THEN inner_except(btfd_result)
        ELSE IF btfd_result.text # <<>> THEN Return(btfd_result.text)
        ELSE Return(NOTHING_SENT)

\* a handle_message that has its query and has built the model call's input;
\* calls counts the calls of client.responses.create made for the message
\* and executed lists the tools whose run was started
ChatCall(query) ==
    [pc |-> "create", query |-> query, at |-> now, input |-> request_input(query),
     calls |-> 1, created |-> NotReached, item |-> 0, arguments |-> NotReached,
     executed |-> <<>>, ran |-> NotReached, outcome |-> NotReached, sent |-> <<>>]

\* call_llm ends with the outcome; handle_message sends what it returned, and
\* sends nothing if it raised
finish(c, outcome) ==
    [c EXCEPT !.outcome = outcome,
              !.pc = IF outcome.kind = "return" THEN "sent" ELSE "failed",
              !.sent = IF outcome.kind = "return" THEN outcome.text ELSE <<>>]

\* call_llm from the response of the model call to the tool's run or to its end
after_create(c, output) ==
    LET i == first_function_call(output)
        created == [c EXCEPT !.created = Responded(output), !.item = i]
    IN  IF i = 0 THEN finish(created, Return(NO_TOOL \o output_str(output)))
        ELSE
        LET arguments == loads_arguments(output[i].arguments)
            parsed == [created EXCEPT !.arguments = arguments]
        IN  IF arguments.kind = "raise" THEN finish(parsed, outer_except(arguments))
            ELSE IF lookup_tool(output[i].name).kind = "raise"
            THEN finish([parsed EXCEPT !.ran = lookup_tool(output[i].name)],
                        inner_except(lookup_tool(output[i].name)))
            ELSE [parsed EXCEPT !.pc = "tool",
                                !.executed = Append(c.executed, output[i].name)]

(***************************************************************************)
(* The environment of handle_message: the texts users send, what the model *)
(* answers (nothing, a message, one or two requests for a tool, with       *)
(* well-formed and ill-formed arguments, for a registered tool or not),    *)
(* what a tool returns, and the errors the two collaborators raise.        *)
(***************************************************************************)
Queries == {<<"b","a","l","a","n","c","e","?">>, <<"h","e","l","l","o">>}

UnknownTool == <<"g","e","t","_","w","e","a","t","h","e","r">>

ModelOutputs ==
    {<<>>,
     <<Message(<<"h","i">>)>>,
     <<FunctionCall(<<"c","h","e","c","k","_","b","a","n","k","_","b","a","l","a","n","c","e">>, <<"{","}">>)>>,
     <<Message(<<"o","k">>), FunctionCall(<<"g","e","t","_","b","a","n","k","_","s","t","a","t","e","m","e","n","t">>, <<"{","\"","n","\"",":"," ","1","}">>)>>,
     <<FunctionCall(<<"c","h","e","c","k","_","b","a","n","k","_","b","a","l","a","n","c","e">>, <<"o","o","p","s">>)>>,
     <<FunctionCall(<<"u","p","i","_","s","t","a","t","u","s","_","m","l">>, <<>>)>>,
     <<FunctionCall(UnknownTool, <<"{","}">>)>>,
     <<FunctionCall(UnknownTool, <<"{","}">>), FunctionCall(<<"c","h","e","c","k","_","b","a","n","k","_","b","a","l","a","n","c","e">>, <<"{","}">>)>>,
     <<FunctionCall(<<"c","h","e","c","k","_","b","a","n","k","_","b","a","l","a","n","c","e">>, <<"{","}">>),
       FunctionCall(<<"g","e","t","_","b","a","n","k","_","s","t","a","t","e","m","e","n","t">>, <<"{","}">>)>>}

ModelErrors == {Raised("APIConnectionError", <<"C","o","n","n","e","c","t","i","o","n"," ","e","r","r","o","r",".">>)}

ToolResults ==
    {FlatObject, RecordTable, Balances, Envelope(PlainText),
     PyDict(<<>>), PyList(<<>>), PyNone}

ToolErrors == {Raised("RuntimeError", <<"t","i","m","e","o","u","t">>), Raised("KeyError", <<"'","t","x","n","i","d","'">>)}

\* handle_message: the typing indicator is sent, the query read, and call_llm
\* has built its input and called the model
HandleMessage ==
    /\ chat.pc \in {"idle", "sent", "failed"}
    /\ \E query \in Queries : chat' = ChatCall(query)
    /\ UNCHANGED <<history, cap, appended, mcl, rr, tc, now, now_ist>>

\* client.responses.create raises
ModelRaises ==
    /\ chat.pc = "create"
    /\ \E e \in ModelErrors :
          chat' = finish([chat EXCEPT !.created = e], outer_except(e))
    /\ UNCHANGED <<history, cap, appended, mcl, rr, tc, now, now_ist>>

\* client.responses.create returns
ModelReturns ==
    /\ chat.pc = "create"
    /\ \E output \in ModelOutputs : chat' = after_create(chat, output)
    /\ UNCHANGED <<history, cap, appended, mcl, rr, tc, now, now_ist>>

\* tool.run raises
ToolRaises ==
    /\ chat.pc = "tool"
    /\ \E e \in ToolErrors : chat' = finish([chat EXCEPT !.ran = e], inner_except(e))
    /\ UNCHANGED <<history, cap, appended, mcl, rr, tc, now, now_ist>>

\* tool.run returns
ToolReturns ==
    /\ chat.pc = "tool"
    /\ \E tool_result \in ToolResults :
          chat' = finish([chat EXCEPT !.ran = Ran(tool_result)], beautified(tool_result))
    /\ UNCHANGED <<history, cap, appended, mcl, rr, tc, now, now_ist>>

\* time passes
Tick ==
    /\ now < MaxClock
    /\ now' = now + 1
    /\ UNCHANGED <<history, cap, appended, mcl, rr, tc, now_ist, chat>>

(***************************************************************************)
(* Specifications.                                                         *)
(***************************************************************************)
InitHistory ==
    /\ history = <<Directive(0)>>
    /\ cap \in 1..MaxCap
    /\ appended = <<>>
    /\ mcl = NoCall
    /\ rr = NoCall
    /\ tc = NoCall
    /\ now = 0
    /\ now_ist = 0
    /\ chat = NoCall

NextHistory == AppendTurn \/ RefreshDirective

SpecHistory == InitHistory /\ [][NextHistory]_vars

InitBounder ==
    /\ history = <<Directive(0)>>
    /\ cap = MaxCap
    /\ appended = <<>>
    /\ mcl \in MclCalls
    /\ rr = NoCall
    /\ tc = NoCall
    /\ now = 0
    /\ now_ist = 0
    /\ chat = NoCall

NextBounder == CallMaintainContextLimit

SpecBounder == InitBounder /\ [][NextBounder]_vars

InitRender ==
    /\ history = <<Directive(0)>>
    /\ cap = MaxCap
    /\ appended = <<>>
    /\ mcl = NoCall
    /\ rr \in RrCalls
    /\ tc = NoCall
    /\ now = 0
    /\ now_ist = 0
    /\ chat = NoCall

NextRender == CallRenderResponse

SpecRender == InitRender /\ [][NextRender]_vars

\* either bounding pass, called once
InitCaps ==
    /\ history = <<Directive(0)>>
    /\ cap = MaxCap
    /\ appended = <<>>
    /\ \/ mcl \in MclCalls /\ rr = NoCall
       \/ mcl = NoCall /\ rr \in RrCalls
    /\ tc = NoCall
    /\ now = 0
    /\ now_ist = 0
    /\ chat = NoCall

NextCaps == CallMaintainContextLimit \/ CallRenderResponse

SpecCaps == InitCaps /\ [][NextCaps]_vars

InitCell ==
    /\ history = <<Directive(0)>>
    /\ cap = MaxCap
    /\ appended = <<>>
    /\ mcl = NoCall
    /\ rr = NoCall
    /\ tc \in TcCalls
    /\ now = 0
    /\ now_ist = 0
    /\ chat = NoCall

NextCell == CallTruncateCell

SpecCell == InitCell /\ [][NextCell]_vars

\* the module is imported at time 0 and no message has come yet
InitChat ==
    /\ history = <<Directive(0)>>
    /\ cap = MaxCap
    /\ appended = <<>>
    /\ mcl = NoCall
    /\ rr = NoCall
    /\ tc = NoCall
    /\ now = 0
    /\ now_ist = 0
    /\ chat = NoCall

NextChat ==
    HandleMessage \/ ModelRaises \/ ModelReturns \/ ToolRaises \/ ToolReturns \/ Tick

SpecChat == InitChat /\ [][NextChat]_vars

(***************************************************************************)
(* Properties of the ContextWindowManager.                                 *)
(***************************************************************************)

\* C1: turn[0] is always the directive turn and the only one; the number of
\* non-directive turns never exceeds the cap, and once more turns than the cap
\* have been appended it is exactly the cap.
HistoryInvariant ==
    /\ Len(history) >= 1
    /\ history[1].role = "directive"
    /\ Len(NonDirective(history)) = Len(history) - 1
    /\ Len(NonDirective(history)) <= cap
    /\ Len(appended) > cap => Len(NonDirective(history)) = cap

\* C1 witness: more turns than the cap were appended and the directive was refreshed
HistoryOverCap ==
    /\ Len(appended) > cap
    /\ history[1] = Directive(1)
    /\ Len(NonDirective(history)) = cap

\* C2: the retained non-directive turns are the cap most recently appended
\* ones in their append order (all of them while there are at most cap), and
\* once over the cap the history holds cap + 1 turns.
EvictionOldestFirst ==
    IF Len(appended) > cap
    THEN /\ Len(history) = cap + 1
         /\ NonDirective(history)
                = SubSeq(appended, Len(appended) - cap + 1, Len(appended))
    ELSE NonDirective(history) = appended

\* C2 witness: cap 6, 10 turns appended, 7 turns held, the last being the 10th
TenAppendedCapSix ==
    /\ cap = 6
    /\ Len(appended) = 10
    /\ Len(history) = 7
    /\ history[2].content = 5
    /\ history[7].content = 10

(***************************************************************************)
(* Properties of maintain_context_limit.                                   *)
(***************************************************************************)
MclEnded == mcl.pc \in {"done", "parse_error"}

\* every string value of a Python value, depth first (dict keys are not values)
RECURSIVE StringsOf(_)
RECURSIVE StringsOfSeq(_, _)
StringsOfSeq(xs, i) ==
    IF i > Len(xs) THEN <<>> ELSE StringsOf(xs[i]) \o StringsOfSeq(xs, i + 1)

StringsOf(x) ==
    CASE x.t = "str" -> <<x.s>>
      [] x.t = "list" -> StringsOfSeq(x.xs, 1)
      [] x.t = "dict" -> StringsOfSeq([i \in 1..Len(x.kvs) |-> x.kvs[i].val], 1)
      [] OTHER -> <<>>

\* a Python value with every string value blanked: what is left is its shape
RECURSIVE ShapeOf(_)
ShapeOf(x) ==
    CASE x.t = "str" -> PyStr(<<>>)
      [] x.t = "list" -> PyList([i \in 1..Len(x.xs) |-> ShapeOf(x.xs[i])])
      [] x.t = "dict" -> PyDict([i \in 1..Len(x.kvs) |-> Item(x.kvs[i].k, ShapeOf(x.kvs[i].val))])
      [] OTHER -> x

AllShort(x, limit) == \A i \in 1..Len(StringsOf(x)) : Len(StringsOf(x)[i]) <= limit

RowsDropped == Len(mcl.normalized.xs) > Len(mcl.capped.xs)

FieldCut == mcl.items # mcl.capped

BackstopFired == Len(mcl.dumped) > mcl.max_total_chars

\* C3: the call returns a string and does not raise, whatever the input
\* (object, list, text that is not JSON, None, integer).
BounderNeverRaises == MclEnded => mcl.outcome.kind = "return"

\* C4: whenever records were dropped, a field was cut or the serialization was
\* cut, the returned string contains a truncation marker.
OverflowSignalledInBand ==
    (mcl.pc = "done" /\ mcl.outcome.kind = "return"
        /\ (RowsDropped \/ FieldCut \/ BackstopFired))
    => (Contains(mcl.outcome.text, TRUNCATED) \/ Contains(mcl.outcome.text, OUTPUT_TRUNCATED))

\* C5: for a top-level list of n records and max_rows = m, the row cap keeps
\* exactly the first min(n, m) records in their order; the bounded structure
\* has those min(n, m) records (a record with no over-long string is the
\* input record itself), and when the backstop does not fire the returned
\* text parses back to exactly those records.
RowCapKeepsFirst ==
    (mcl.pc = "done" /\ isinstance(mcl.json_data, "list")) =>
        LET records == mcl.json_data.xs
            k == Min(Len(records), mcl.max_rows)
        IN  /\ mcl.capped = PyList(SubSeq(records, 1, k))
            /\ Len(mcl.items.xs) = k
            /\ \A i \in 1..k :
                /\ ShapeOf(mcl.items.xs[i]) = ShapeOf(records[i])
                /\ AllShort(records[i], mcl.max_field_value)
                        => mcl.items.xs[i] = records[i]
            /\ ~BackstopFired =>
                /\ mcl.outcome.kind = "return"
                /\ json_loads(mcl.outcome.text).ok
                /\ json_loads(mcl.outcome.text).val = mcl.items

\* C5 witness: more records than max_rows, distinct ones, no backstop
RowCapFired ==
    /\ mcl.pc = "done"
    /\ isinstance(mcl.data, "list")
    /\ mcl.max_rows = 2
    /\ Len(mcl.json_data.xs) > 2
    /\ mcl.json_data.xs[1] # mcl.json_data.xs[2]
    /\ mcl.json_data.xs[3] # mcl.json_data.xs[2]
    /\ AllShort(mcl.json_data, mcl.max_field_value)
    /\ ~BackstopFired

\* C6: the bounded structure has the shape of the row-capped one and, string
\* value by string value at every depth, a string longer than max_field_value
\* is its first max_field_value characters followed by the marker and any
\* other string is unchanged; no string value is longer than max_field_value
\* plus the length of the marker.
FieldCapEverywhere ==
    mcl.pc = "done" =>
        LET before == StringsOf(mcl.capped)
            after == StringsOf(mcl.items)
        IN  /\ ShapeOf(mcl.items) = ShapeOf(mcl.capped)
            /\ Len(after) = Len(before)
            /\ \A i \in 1..Len(before) :
                /\ Len(before[i]) > mcl.max_field_value
                    => after[i] = SubSeq(before[i], 1, mcl.max_field_value) \o TRUNCATED
                /\ Len(before[i]) <= mcl.max_field_value => after[i] = before[i]
                /\ Len(after[i]) <= mcl.max_field_value + Len(TRUNCATED)

\* C6 witness: over-long strings inside a nested dict and inside a list were
\* cut while a short one was kept
NestedFieldsCut ==
    /\ mcl.pc = "done"
    /\ mcl.data = NestedDict
    /\ mcl.max_field_value = 1
    /\ mcl.max_rows >= 1
    /\ StringsOf(mcl.items) = <<<<"a">> \o TRUNCATED, <<"a">> \o TRUNCATED>>

\* C7: when the serialization of the bounded structure is at most
\* max_total_chars long, the returned text is valid JSON and parses to a list
\* (the bounded structure); otherwise it is exactly the first max_total_chars
\* characters of the serialization followed by the marker.
OutputValidUnlessBackstop ==
    (mcl.pc = "done" /\ mcl.outcome.kind = "return") =>
        IF Len(mcl.dumped) <= mcl.max_total_chars
        THEN /\ json_loads(mcl.outcome.text).ok
             /\ isinstance(json_loads(mcl.outcome.text).val, "list")
             /\ json_loads(mcl.outcome.text).val = mcl.items
        ELSE mcl.outcome.text
                = SubSeq(mcl.dumped, 1, mcl.max_total_chars) \o OUTPUT_TRUNCATED

\* C7 witness: a serialization of exactly max_total_chars characters is
\* returned whole
SerializationAtBudget ==
    /\ mcl.pc = "done"
    /\ mcl.outcome.kind = "return"
    /\ Len(mcl.dumped) = mcl.max_total_chars
    /\ mcl.outcome.text = mcl.dumped
    /\ Len(mcl.items.xs) = 1

\* C8: a bare object becomes a one-element list holding it, a list is kept,
\* and any other scalar becomes a list of one synthetic record (a dict whose
\* single field holds the scalar's string form), so the row cap always works
\* on a list.
ShapeNormalized ==
    mcl.pc = "done" =>
        /\ isinstance(mcl.normalized, "list")
        /\ isinstance(mcl.json_data, "dict") => mcl.normalized.xs = <<mcl.json_data>>
        /\ isinstance(mcl.json_data, "list") => mcl.normalized = mcl.json_data
        /\ mcl.json_data.t \notin {"dict", "list"} =>
            /\ Len(mcl.normalized.xs) = 1
            /\ isinstance(mcl.normalized.xs[1], "dict")
            /\ Len(mcl.normalized.xs[1].kvs) = 1
            /\ mcl.normalized.xs[1].kvs[1].k = <<"r","e","s","p","o","n","s","e">>
            /\ isinstance(mcl.normalized.xs[1].kvs[1].val, "str")
        /\ mcl.json_data = PyInt(5) => StringsOf(mcl.normalized) = <<<<"5">>>>
        /\ mcl.json_data = PyNone => StringsOf(mcl.normalized) = <<<<"N","o","n","e">>>>
        /\ mcl.json_data = PyStr(<<"a","a","a","a">>) => StringsOf(mcl.normalized) = <<<<"a","a","a","a">>>>

\* C8 witness: JSON text that parses to a number became one synthetic record
ScalarTextNormalized ==
    /\ mcl.pc = "done"
    /\ mcl.data = PyStr(<<"5">>)
    /\ mcl.json_data = PyInt(5)
    /\ Len(mcl.normalized.xs) = 1
    /\ mcl.outcome.kind = "return"

(***************************************************************************)
(* Properties of render_response.                                          *)
(***************************************************************************)
NewlineCount(s) == Cardinality({i \in 1..Len(s) : s[i] = "\n"})

\* the number of lines of s: one per "\n", and one more for what follows the last
LineCount(s) ==
    NewlineCount(s) + (IF s # <<>> /\ s[Len(s)] # "\n" THEN 1 ELSE 0)

\* the position of the n-th "\n" of s
NthNewline(s, n) ==
    CHOOSE i \in 1..Len(s) :
        s[i] = "\n" /\ Cardinality({j \in 1..i : s[j] = "\n"}) = n

\* the first n lines of a text of more than n lines: everything before its
\* n-th line break, nothing for n = 0
FirstLines(s, n) == IF n = 0 THEN <<>> ELSE SubSeq(s, 1, NthNewline(s, n) - 1)

SizeCapFired == Len(rr.walked) > rr.max_total_chars

LineCapFired == LineCount(rr.sized) > rr.max_rows

\* the markers as the reader sees them, without the line breaks before them
SIZE_NOTICE == SubSeq(SIZE_TRUNCATED, 3, Len(SIZE_TRUNCATED))

ROW_NOTICE == SubSeq(ROW_TRUNCATED, 2, Len(ROW_TRUNCATED))

\* C9: first the rendered text, if longer than max_total_chars, is cut to
\* its first max_total_chars characters and gets the size marker; then the
\* resulting text, if it has more than max_rows lines, is cut to its first
\* max_rows lines (everything before its max_rows-th line break) and gets the
\* row marker; each cap fires on its own condition alone.
FinalCapsInOrder ==
    rr.pc = "done" =>
        /\ rr.sized = IF SizeCapFired
                      THEN SubSeq(rr.walked, 1, rr.max_total_chars) \o SIZE_TRUNCATED
                      ELSE rr.walked
        /\ rr.markdown = IF LineCapFired
                         THEN FirstLines(rr.sized, rr.max_rows) \o ROW_TRUNCATED
                         ELSE rr.sized
        /\ rr.outcome = Return(rr.markdown)

\* C9 witness: both caps fired on one input, the size cap inside the text
BothCapsFired ==
    /\ rr.pc = "done"
    /\ rr.data = FlatObject
    /\ SizeCapFired
    /\ LineCapFired
    /\ EndsWith(rr.markdown, ROW_TRUNCATED)

\* C10: if the size cap fired the returned text contains the size marker,
\* and if the line cap fired it contains the row marker, also when both fire.
EveryTruncationMarked ==
    rr.pc = "done" =>
        /\ SizeCapFired => Contains(rr.outcome.text, SIZE_NOTICE)
        /\ LineCapFired => Contains(rr.outcome.text, ROW_NOTICE)

(***************************************************************************)
(* Monotonicity of the caps.                                               *)
(***************************************************************************)
\* the length of the longest common prefix of a and b
CommonPrefix(a, b) ==
    LET n == Min(Len(a), Len(b))
    IN  IF \A i \in 1..n : a[i] = b[i] THEN n
        ELSE (CHOOSE i \in 1..n : a[i] # b[i] /\ \A j \in 1..(i - 1) : a[j] = b[j]) - 1

\* the part of the text returned under the budgets max_total_chars and
\* max_rows that is rendering: the text without the row marker if the line
\* cap fired, and without what follows its first max_total_chars characters
\* if the size cap fired
RenderingKept(max_total_chars, max_rows) ==
    LET caps == final_caps(rr.walked, max_total_chars, max_rows)
        body == IF LineCount(caps.sized) > max_rows
                THEN SubSeq(caps.markdown, 1, Len(caps.markdown) - Len(ROW_TRUNCATED))
                ELSE caps.markdown
    IN  IF Len(rr.walked) > max_total_chars THEN SliceTo(body, max_total_chars) ELSE body

\* how much of the untruncated rendering that text starts with
RenderingPreserved(max_total_chars, max_rows) ==
    CommonPrefix(RenderingKept(max_total_chars, max_rows), rr.walked)

\* the serialization of the call's items with neither the row cap nor the
\* backstop applied (the field budget is the call's)
UntruncatedSerialization ==
    json_dumps(truncate_values(mcl.normalized, mcl.max_field_value))

\* the text maintain_context_limit returns under the budgets max_total_chars
\* and max_rows
BoundedSerialization(max_total_chars, max_rows) ==
    cap_total(json_dumps(truncate_values(cap_rows(mcl.normalized, max_rows),
                                         mcl.max_field_value)),
              max_total_chars)

\* how much of the untruncated serialization that text, without the backstop's
\* marker, starts with
SerializationPreserved(max_total_chars, max_rows) ==
    LET output == BoundedSerialization(max_total_chars, max_rows)
        kept == IF EndsWith(output, OUTPUT_TRUNCATED)
                THEN SubSeq(output, 1, Len(output) - Len(OUTPUT_TRUNCATED))
                ELSE output
    IN  CommonPrefix(kept, UntruncatedSerialization)

\* C11: for the same input and otherwise equal budgets, a larger max_rows or
\* a larger max_total_chars never makes the returned text start with less of
\* the untruncated rendering (render_response) or of the untruncated
\* serialization (maintain_context_limit).
CapsMonotonic ==
    /\ rr.pc = "done" =>
        /\ rr.markdown = final_caps(rr.walked, rr.max_total_chars, rr.max_rows).markdown
        /\ \A more \in RenderCharsBudgets \cup {rr.max_total_chars + 1} :
              more >= rr.max_total_chars =>
                  RenderingPreserved(more, rr.max_rows)
                      >= RenderingPreserved(rr.max_total_chars, rr.max_rows)
        /\ \A more \in RenderRowsBudgets \cup {rr.max_rows + 1} :
              more >= rr.max_rows =>
                  RenderingPreserved(rr.max_total_chars, more)
                      >= RenderingPreserved(rr.max_total_chars, rr.max_rows)
    /\ mcl.pc = "done" =>
        /\ mcl.output = BoundedSerialization(mcl.max_total_chars, mcl.max_rows)
        /\ \A more \in TotalCharsBudgets \cup {mcl.max_total_chars + 1} :
              more >= mcl.max_total_chars =>
                  SerializationPreserved(more, mcl.max_rows)
                      >= SerializationPreserved(mcl.max_total_chars, mcl.max_rows)
        /\ \A more \in 1..(MaxRows + 1) :
              more >= mcl.max_rows =>
                  SerializationPreserved(mcl.max_total_chars, more)
                      >= SerializationPreserved(mcl.max_total_chars, mcl.max_rows)

\* C11 witness: the size cap cut the rendering, and a larger character
\* budget keeps strictly more of it
LargerBudgetKeepsMore ==
    /\ rr.pc = "done"
    /\ SizeCapFired
    /\ \E more \in RenderCharsBudgets :
          /\ more > rr.max_total_chars
          /\ RenderingPreserved(more, rr.max_rows)
                > RenderingPreserved(rr.max_total_chars, rr.max_rows)

(***************************************************************************)
(* Properties of the normalizer _to_obj.                                   *)
(***************************************************************************)
\* C12: normalizing the tree a call normalized its input to gives that tree
\* again: _to_obj(_to_obj(x)) = _to_obj(x).
NormalizationIdempotent ==
    rr.pc = "done" => _to_obj(rr.obj) = rr.obj

(***************************************************************************)
(* Properties of the table renderer _make_table.                           *)
(***************************************************************************)
\* a non-empty list whose items are all objects
IsRecordList(x) ==
    /\ isinstance(x, "list")
    /\ x.xs # <<>>
    /\ \A i \in 1..Len(x.xs) : isinstance(x.xs[i], "dict")

\* the lists of records _walk meets in the tree x
RECURSIVE TablesOf(_)
TablesOf(x) ==
    CASE isinstance(x, "dict") ->
            UNION {TablesOf(x.kvs[i].val) : i \in 1..Len(x.kvs)}
      [] IsRecordList(x) -> {x}
      [] isinstance(x, "list") -> UNION {TablesOf(x.xs[i]) : i \in 1..Len(x.xs)}
      [] OTHER -> {}

\* the position of the first " | " of s at or after i, Len(s) + 1 if there is none
NextBar(s, i) ==
    IF \E j \in i..Len(s) : MatchAt(s, j, <<" ", "|", " ">>)
    THEN CHOOSE j \in i..Len(s) :
            /\ MatchAt(s, j, <<" ", "|", " ">>)
            /\ \A k \in i..(j - 1) : ~MatchAt(s, k, <<" ", "|", " ">>)
    ELSE Len(s) + 1

RECURSIVE CellsFrom(_, _)
CellsFrom(s, i) ==
    IF NextBar(s, i) > Len(s) THEN <<SubSeq(s, i, Len(s))>>
    ELSE <<SubSeq(s, i, NextBar(s, i) - 1)>> \o CellsFrom(s, NextBar(s, i) + 3)

\* the cells of a table line "| c1 | c2 | ... |"
CellsOf(line) == CellsFrom(SubSeq(line, 3, Len(line) - 2), 1)

\* the lines of the table rendered for the list of records t
TableLines(t) == splitlines(_make_table(t, rr.max_cell_width).s)

\* the keys of the records of t
KeysOf(t) == UNION {{t.xs[i].kvs[j].k : j \in 1..Len(t.xs[i].kvs)} : i \in 1..Len(t.xs)}

\* the first record of t that has the key k, and the place of k in it
FirstRow(t, k) == CHOOSE i \in 1..Len(t.xs) :
    DictHas(t.xs[i].kvs, k) /\ \A h \in 1..(i - 1) : ~DictHas(t.xs[h].kvs, k)

PlaceIn(kvs, k) == CHOOSE j \in 1..Len(kvs) : kvs[j].k = k

\* k1 appears before k2 when the rows are scanned in order, each in its
\* insertion order
AppearsBefore(t, k1, k2) ==
    \/ FirstRow(t, k1) < FirstRow(t, k2)
    \/ /\ FirstRow(t, k1) = FirstRow(t, k2)
       /\ PlaceIn(t.xs[FirstRow(t, k1)].kvs, k1) < PlaceIn(t.xs[FirstRow(t, k1)].kvs, k2)

\* C13: the header of every rendered table names each key of its records
\* exactly once, in the order of first appearance over the rows in order and
\* each row's keys in insertion order.
ColumnOrderStable ==
    rr.pc = "done" =>
        \A t \in TablesOf(rr.obj) :
            LET header == CellsOf(TableLines(t)[1])
            IN  /\ {header[j] : j \in 1..Len(header)} = KeysOf(t)
                /\ Len(header) = Cardinality(KeysOf(t))
                /\ \A i, j \in 1..Len(header) :
                      i < j => AppearsBefore(t, header[i], header[j])
                /\ Contains(rr.walked, _make_table(t, rr.max_cell_width).s)

\* C13 witness: a table whose third column first appears in the second
\* record, and whose first-appearance order is not the alphabetical one
HeaderTypeAmountNote ==
    /\ rr.pc = "done"
    /\ rr.data = Balances
    /\ TablesOf(rr.obj) = {DictGet(Balances.kvs, <<"b","a","l","a","n","c","e","s">>)}
    /\ Contains(rr.walked, <<"|"," ","t","y","p","e"," ","|"," ","a","m","o","u","n","t"," ","|"," ","n","o","t","e"," ","|","\n">>)

CellForm(v) == IF v = PyNone THEN <<>> ELSE py_str(v)

\* C15: a value whose string form is longer than max_cell_width comes back
\* as the first max_cell_width characters of that form followed by the
\* marker, so at most max_cell_width + marker length long and containing the
\* marker; a value at or under the limit comes back as its string form
\* unchanged; null comes back as the empty string; the length measured is
\* that of the string form, whatever the kind of the value.
TruncationVisible ==
    tc.pc = "done" =>
        /\ Len(CellForm(tc.v)) > tc.max_cell_width =>
              /\ tc.result = SubSeq(CellForm(tc.v), 1, tc.max_cell_width) \o CELL_TRUNCATED
              /\ Len(tc.result) <= tc.max_cell_width + Len(CELL_TRUNCATED)
              /\ Contains(tc.result, CELL_TRUNCATED)
        /\ Len(CellForm(tc.v)) <= tc.max_cell_width => tc.result = CellForm(tc.v)
        /\ tc.v = PyNone => tc.result = <<>>
        /\ tc.v = PyBool(TRUE) /\ tc.max_cell_width = 1 => tc.result = <<"T",".",".",".","(","t","r","u","n","c","a","t","e","d",")">>
        /\ tc.v = PyInt(0 - 3) /\ tc.max_cell_width = 1 => tc.result = <<"-",".",".",".","(","t","r","u","n","c","a","t","e","d",")">>

\* C15 witness: a two-digit number under a width of one character is cut
\* to its first digit and marked
NumberCutAndMarked ==
    /\ tc.pc = "done"
    /\ tc.v = PyInt(12)
    /\ tc.max_cell_width = 1
    /\ tc.result = <<"1",".",".",".","(","t","r","u","n","c","a","t","e","d",")">>

(***************************************************************************)
(* render_response on malformed and unexpected input.                      *)
(***************************************************************************)
\* the payload of an envelope: x["text"] where x is an object with that key
IsEnvelope(x) == isinstance(x, "dict") /\ DictHas(x.kvs, TEXT_KEY)

Unparseable(x) == isinstance(x, "str") /\ ~json_loads(x.s).ok

OtherScalar(x) == x.t \in {"none", "bool", "int"}

\* C16: every call returns a text, whatever the input: an object, a list,
\* parseable or unparseable text, null, a number, an envelope around text,
\* an object or another scalar.  Unparseable text becomes the leaf
\* {"text": text}, any other scalar the leaf {"text": str(scalar)}, also as
\* the payload of an envelope, and that leaf is what is rendered.
RenderNeverRaises ==
    rr.pc = "done" =>
        LET payload == IF IsEnvelope(rr.data) THEN DictGet(rr.data.kvs, TEXT_KEY)
                       ELSE rr.data
        IN  /\ rr.outcome.kind = "return"
            /\ rr.outcome.text = rr.markdown
            /\ Unparseable(payload) => rr.obj = TextLeaf(payload.s)
            /\ OtherScalar(payload) => rr.obj = TextLeaf(py_str(payload))
            /\ isinstance(payload, "str") /\ ~Unparseable(payload) =>
                  rr.obj = json_loads(payload.s).val
            /\ payload.t \in {"dict", "list"} => rr.obj = payload
            /\ Unparseable(payload) \/ OtherScalar(payload) =>
                  rr.walked = <<"\n","#","#"," ","t","e","x","t",":"," ">>
                      \o _truncate_cell(DictGet(rr.obj.kvs, TEXT_KEY), rr.max_cell_width)

\* C16 witness: text that is no JSON comes back as a leaf under the default
\* budgets
PlainTextRendered ==
    /\ rr.pc = "done"
    /\ rr.data = PlainText
    /\ Unparseable(rr.data)
    /\ rr.max_total_chars = 25000 /\ rr.max_rows = 200 /\ rr.max_cell_width = 120
    /\ rr.outcome = Return(<<"\n","#","#"," ","t","e","x","t",":"," ","n","o"," ","j","s","o","n">>)

(***************************************************************************)
(* Properties of refresh_directive.                                        *)
(***************************************************************************)
\* C17: a step that appends nothing and changes the history (a refresh)
\* replaces turn[0] by a directive turn and leaves everything after it as it
\* was: the same non-directive turns in the same order, the same length, no
\* eviction, at every turn count.
RefreshReplacesInPlace ==
    [][(appended' = appended /\ history' # history) =>
          /\ Len(history') = Len(history)
          /\ history'[1].role = "directive"
          /\ history'[1] # history[1]
          /\ Tail(history') = Tail(history)
          /\ NonDirective(history') = NonDirective(history)
          /\ cap' = cap]_vars

\* C17 witness: the directive was refreshed and the history is at the largest
\* cap, holding the cap most recent turns
RefreshedAtCap ==
    /\ cap = MaxCap
    /\ Len(appended) = MaxAppends
    /\ history[1] = Directive(MaxStamp)
    /\ Tail(history) = SubSeq(appended, Len(appended) - cap + 1, Len(appended))

(***************************************************************************)
(* Properties of handle_message and call_llm.                              *)
(***************************************************************************)
\* C18: the directive turn sent with a model call carries the time of that
\* call.
DirectiveStampedAtCall ==
    chat.pc # "idle" =>
        /\ chat.input[1].role = "system"
        /\ chat.input[1].timestamp = chat.at

\* the record {"error": message} of a failed tool
ErrorRecord(message) == PyDict(<<Item(<<"e","r","r","o","r">>, PyStr(message))>>)

\* the tool was asked for and raised: it is not registered, or its run raised
ToolFailed == chat.pc \in {"sent", "failed"} /\ chat.ran.kind = "raise"

\* C19: when the tool raises, also because it is not registered, nothing is
\* propagated and what the user is sent is the rendering of the record
\* {"error": message of the exception}.
ToolErrorRendered ==
    ToolFailed =>
        /\ chat.outcome.kind = "return"
        /\ chat.sent
              = render_response(ErrorRecord(chat.ran.message), 25000, 200, 120).markdown

\* the final states of call_llm, by the path taken
ModelFailed == chat.created.kind = "raise"

ArgumentsUnparseable == chat.arguments.kind = "raise"

NoToolRequested == chat.created.kind = "return" /\ chat.item = 0

RenderedToNothing ==
    /\ chat.ran.kind = "return"
    /\ render_response(chat.ran.result, 25000, 200, 120).markdown = <<>>

\* C20: whatever happens (the model call raises, the arguments of the tool
\* request are no JSON, the tool is not registered, the tool raises, the
\* rendering of its result is empty, the model asks for no tool), call_llm
\* returns a text, which is not empty and is what handle_message sends; no
\* exception leaves call_llm.
EveryPathReturnsText ==
    /\ chat.pc # "failed"
    /\ chat.pc = "sent" =>
        /\ chat.outcome.kind = "return"
        /\ chat.outcome.text # <<>>
        /\ chat.sent = chat.outcome.text
        /\ ModelFailed => StartsWith(chat.sent, WENT_WRONG)
        /\ ArgumentsUnparseable => StartsWith(chat.sent, WENT_WRONG)
        /\ ToolFailed => chat.sent = TOOL_ERROR
        /\ RenderedToNothing => chat.sent = NOTHING_SENT
        /\ NoToolRequested => StartsWith(chat.sent, NO_TOOL)
        /\ chat.ran.kind = "return" /\ ~RenderedToNothing =>
              chat.sent = render_response(chat.ran.result, 25000, 200, 120).markdown

\* C20 witness: the tool returned an empty object, whose rendering is empty,
\* and the user was sent the text that says so
EmptyResultAnswered ==
    /\ chat.pc = "sent"
    /\ chat.ran = Ran(PyDict(<<>>))
    /\ RenderedToNothing
    /\ chat.sent = NOTHING_SENT

\* C21: when the model call raises, the text the user is sent is a fixed
\* apology with nothing of the error in it: neither the exception's message
\* nor an error report.
ModelFailureTerse ==
    chat.pc = "sent" /\ ModelFailed =>
        /\ ~Contains(chat.sent, chat.created.message)
        /\ ~Contains(chat.sent, <<"E","r","r","o","r">>)

\* C22: the processing of a message is sequential and ends with a model
\* call that asks for no tool: every tool that ran was followed by a further
\* model call that was given its result, so a message whose tools ran n
\* times has made n + 1 model calls when its answer is sent, n bounded by a
\* fixed ceiling.
ToolResultFedToModel ==
    /\ chat.pc = "create" => chat.calls = Len(chat.executed) + 1
    /\ chat.pc = "tool" => chat.calls = Len(chat.executed)
    /\ chat.pc = "sent" /\ chat.ran.kind = "return" =>
          /\ chat.calls = Len(chat.executed) + 1
          /\ chat.created.kind = "return"
          /\ first_function_call(chat.created.output) = 0

RECURSIVE ListsOf(_)
ListsOf(x) ==
    CASE isinstance(x, "dict") ->
            UNION {ListsOf(x.kvs[i].val) : i \in 1..Len(x.kvs)}
      [] IsRecordList(x) -> {x}
      [] isinstance(x, "list") ->
            {x} \cup UNION {ListsOf(x.xs[i]) : i \in 1..Len(x.xs)}
      [] OTHER -> {}

SomeItemNotObject(l) == \E i \in 1..Len(l.xs) : ~isinstance(l.xs[i], "dict")

\* what _make_table returned is a table: header, separator and rows
IsTable(tbl) ==
    /\ isinstance(tbl, "str")
    /\ Len(splitlines(tbl.s)) >= 3
    /\ \A i \in 1..Len(splitlines(tbl.s)) : StartsWith(splitlines(tbl.s)[i], <<"|", " ">>)

IsScalar(x) == x.t \notin {"dict", "list"}

\* C25: a named scalar leaf is rendered as "{name}: {truncated value}", and
\* an unnamed root scalar (input text that parses to a bare number, boolean
\* or string) is rendered under a generic "value" heading.
ScalarLeafRendering ==
    rr.pc = "done" =>
        /\ isinstance(rr.obj, "dict") =>
              \A i \in 1..Len(rr.obj.kvs) :
                  IsScalar(rr.obj.kvs[i].val) =>
                      Contains(rr.walked,
                          rr.obj.kvs[i].k \o <<":"," ">>
                              \o _truncate_cell(rr.obj.kvs[i].val, rr.max_cell_width))
        /\ IsScalar(rr.obj) =>
              rr.walked = <<"\n","#"," ","v","a","l","u","e","\n">> \o _truncate_cell(rr.obj, rr.max_cell_width)

(***************************************************************************)
(* Envelope unwrapping by _to_obj.                                         *)
(***************************************************************************)
\* an envelope whose "text" value is an object or a list
WrapsTree(x) == IsEnvelope(x) /\ DictGet(x.kvs, TEXT_KEY).t \in {"dict", "list"}

\* the value inside every envelope around an object or list
RECURSIVE Unwrapped(_)
Unwrapped(x) == IF WrapsTree(x) THEN Unwrapped(DictGet(x.kvs, TEXT_KEY)) ELSE x

\* C26: an envelope around an object or list is unwrapped and normalization
\* recurses into the value, so an envelope nested inside it is unwrapped as
\* well; an envelope around a string that does not parse keeps the raw
\* string as a scalar leaf under the same field name, and nothing is raised.
EnvelopeUnwrappedThroughout ==
    rr.pc = "done" /\ IsEnvelope(rr.data) =>
        /\ rr.outcome.kind = "return"
        /\ WrapsTree(rr.data) =>
              /\ rr.obj = Unwrapped(rr.data)
              /\ ~WrapsTree(rr.obj)
        /\ Unparseable(DictGet(rr.data.kvs, TEXT_KEY)) =>
              rr.obj = TextLeaf(DictGet(rr.data.kvs, TEXT_KEY).s)

(***************************************************************************)
(* The size ceiling of render_response.                                    *)
(***************************************************************************)
LengthCeiling ==
    Len(rr.markdown) <= rr.max_total_chars + Len(SIZE_TRUNCATED) + Len(ROW_TRUNCATED)

\* C27 as stated: for every input and every budget the returned text is at
\* most max_total_chars characters plus the two markers' lengths, and it has
\* at most max_rows + 1 lines.
HardCeiling ==
    rr.pc = "done" =>
        /\ LengthCeiling
        /\ Len(splitlines(rr.markdown)) <= rr.max_rows + 1

\* C27 amended: the length bound holds for every budget; the text has at
\* most max_rows + 1 lines for every max_rows of at least 1, and at most 2
\* lines (an empty one and the row marker) for max_rows = 0.
HardCeilingPositiveRows ==
    rr.pc = "done" =>
        /\ LengthCeiling
        /\ Len(splitlines(rr.markdown)) <= Max(rr.max_rows, 1) + 1

\* C27 witness: both caps fired on a call with max_rows of at least 1 and
\* the returned text is longer than max_total_chars and has exactly
\* max_rows + 1 lines
CeilingReached ==
    /\ rr.pc = "done"
    /\ rr.max_rows >= 1
    /\ Len(rr.walked) > rr.max_total_chars
    /\ Len(splitlines(rr.sized)) > rr.max_rows
    /\ Len(rr.markdown) > rr.max_total_chars
    /\ Len(splitlines(rr.markdown)) = rr.max_rows + 1

(***************************************************************************)
(* One tool per user message.                                              *)
(***************************************************************************)
FunctionCallsOf(output) == {i \in 1..Len(output) : output[i].type = "function_call"}

RECURSIVE SameShape(_, _)
SameShape(x, y) ==
    CASE isinstance(x, "dict") ->
            /\ isinstance(y, "dict")
            /\ Len(y.kvs) = Len(x.kvs)
            /\ \A i \in 1..Len(x.kvs) :
                  /\ y.kvs[i].k = x.kvs[i].k
                  /\ SameShape(x.kvs[i].val, y.kvs[i].val)
      [] isinstance(x, "list") ->
            /\ isinstance(y, "list")
            /\ Len(y.xs) = Len(x.xs)
            /\ \A i \in 1..Len(x.xs) : SameShape(x.xs[i], y.xs[i])
      [] OTHER -> y.t = x.t

Siblings(x) == SelectSeq(x.kvs, LAMBDA item : item.k # TEXT_KEY)

\* C30: when the object has the envelope field "text" and other fields, only
\* the envelope field's content is rendered: the call returns what it returns
\* for the envelope field alone, no sibling's name or value is in the
\* rendering, and no marker tells of it: the rendering has neither the size
\* nor the row marker, and is returned as it is when no cap fires.
SiblingsDroppedSilently ==
    rr.pc = "done" /\ IsEnvelope(rr.data) /\ Siblings(rr.data) # <<>> =>
        /\ rr.outcome = render_response(Envelope(DictGet(rr.data.kvs, TEXT_KEY)),
                            rr.max_total_chars, rr.max_rows, rr.max_cell_width).outcome
        /\ \A i \in 1..Len(Siblings(rr.data)) :
              /\ ~Contains(rr.walked, Siblings(rr.data)[i].k)
              /\ ~Contains(rr.walked, py_str(Siblings(rr.data)[i].val))
        /\ ~Contains(rr.walked, SIZE_NOTICE)
        /\ ~Contains(rr.walked, ROW_NOTICE)
        /\ (~SizeCapFired /\ ~LineCapFired) => rr.outcome = Return(rr.walked)

\* C30 witness: {"status": "ok", "text": {"a": 1}} with no cap firing is
\* returned as the rendering of {"a": 1}: "status" and "ok" are gone and
\* nothing marks it
StatusFieldGone ==
    /\ rr.pc = "done"
    /\ rr.data = EnvelopeWithSiblings
    /\ ~SizeCapFired
    /\ ~LineCapFired
    /\ rr.outcome = Return(<<"\n","#","#"," ","a",":"," ","1">>)

====
